---------------------------- MODULE Spec2Model ----------------------------
(***************************************************************************)
(* Model of tools/seq_primer_clip/seq_primer_clip.py: the generation of    *)
(* the primer regular expressions, the compiled alternation and its        *)
(* search, and the per-record clip loops for SFF, FASTQ and FASTA.         *)
(*                                                                         *)
(* A Python string is a sequence of one-character strings, so a regular    *)
(* expression is the sequence of its characters and len(p) is Len(p).      *)
(***************************************************************************)
EXTENDS Integers, Sequences, FiniteSets, TLC

(* ------------------------------ bounds -------------------------------- *)
\* Spec: the whole program on input files of up to MaxRecords reads of up to
\* MaxSeqLen bases.
MaxSeqLen == 1
MaxRecords == 2
\* All specifications: the values of min_len, and the iteration orders of
\* the set of patterns.
MaxMinLen == 1
MaxHashSeed == 1
\* SpecRecord and SpecMatch: one read of up to MaxTargetLen bases.
\* SpecMatch: primer files of up to MaxPrimerBases bases.
MaxTargetLen == 3
MaxPrimerBases == 3

\* Letters that reads and primers are drawn from.  A and T are closed under
\* complement, W is the IUPAC code for "A or T", a is a lower-case base (the
\* flowgram reader delivers the bases inside the clip window in upper case).
Bases == {"A", "T"}
ReadLetters == Bases \cup {"a"}
PrimerLetters == Bases \cup {"W"}
StreamPrimerLetters == {"A"}

VARIABLES pc, mm, min_len, keep_negatives, forward, rc, seq_format,
          primer_fasta, count, primer,
          short_neg, short_clipped, clipped, negs,
          nread, nwritten, last

args == <<mm, min_len, keep_negatives, forward, rc, seq_format, primer_fasta>>
stats == <<short_neg, short_clipped, clipped, negs>>
vars == <<pc, mm, min_len, keep_negatives, forward, rc, seq_format,
          primer_fasta, count, primer,
          short_neg, short_clipped, clipped, negs,
          nread, nwritten, last>>

(* --------------------------- string helpers --------------------------- *)
\* Python s[i:] and s[:j] for 0 <= i, j (indices beyond the end clamp).
slice_from(s, i) == SubSeq(s, i + 1, Len(s))
slice_to(s, j) == SubSeq(s, 1, IF j < Len(s) THEN j ELSE Len(s))
\* Python s[:-i] for i >= 1.
slice_drop_last(s, i) == SubSeq(s, 1, Len(s) - i)
\* Python s[i:j] for 0 <= i, j.
slice(s, i, j) == SubSeq(s, i + 1, IF j < Len(s) THEN j ELSE Len(s))

to_upper ==
  ("a" :> "A") @@ ("c" :> "C") @@ ("g" :> "G") @@ ("t" :> "T") @@
  ("n" :> "N") @@ ("w" :> "W")

\* str.upper()
upper(s) == [i \in 1..Len(s) |->
               IF s[i] \in DOMAIN to_upper THEN to_upper[s[i]] ELSE s[i]]

\* The concatenation of a sequence of sequences.
RECURSIVE Flatten(_)
Flatten(ss) ==
  IF ss = <<>> THEN <<>>
  ELSE IF Len(ss) = 1 THEN ss[1]
  ELSE LET h == Len(ss) \div 2
       IN Flatten(SubSeq(ss, 1, h)) \o Flatten(SubSeq(ss, h + 1, Len(ss)))

\* <<1, ..., n>>
Indices(n) == [i \in 1..n |-> i]

\* All sequences over S of length lo..hi.
SeqsOf(S, lo, hi) == UNION {[1..n -> S] : n \in lo..hi}

(* --------------------------- ambiguity table -------------------------- *)
ambiguous_dna_values ==
  ("A" :> <<"A">>) @@ ("C" :> <<"C">>) @@ ("G" :> <<"G">>) @@
  ("T" :> <<"T">>) @@
  ("M" :> <<"A", "C", "M">>) @@ ("R" :> <<"A", "G", "R">>) @@
  ("W" :> <<"A", "T", "W">>) @@ ("S" :> <<"C", "G", "S">>) @@
  ("Y" :> <<"C", "T", "Y">>) @@ ("K" :> <<"G", "T", "K">>) @@
  ("V" :> <<"A", "C", "G", "M", "R", "S", "V">>) @@
  ("H" :> <<"A", "C", "T", "M", "W", "Y", "H">>) @@
  ("D" :> <<"A", "G", "T", "R", "W", "K", "D">>) @@
  ("B" :> <<"C", "G", "T", "S", "Y", "K", "B">>) @@
  ("X" :> <<".">>) @@ ("N" :> <<".">>)

ambiguous_dna_re ==
  [letter \in DOMAIN ambiguous_dna_values |->
     LET values == ambiguous_dna_values[letter]
     IN IF Len(values) = 1 THEN values ELSE <<"[">> \o values \o <<"]">>]

make_reg_ex(seq) == Flatten([i \in 1..Len(seq) |-> ambiguous_dna_re[seq[i]]])

\* Bio.Seq.reverse_complement
complement ==
  ("A" :> "T") @@ ("T" :> "A") @@ ("C" :> "G") @@ ("G" :> "C") @@
  ("M" :> "K") @@ ("K" :> "M") @@ ("R" :> "Y") @@ ("Y" :> "R") @@
  ("W" :> "W") @@ ("S" :> "S") @@ ("V" :> "B") @@ ("B" :> "V") @@
  ("H" :> "D") @@ ("D" :> "H") @@ ("N" :> "N") @@ ("X" :> "X")

reverse_complement(s) ==
  [i \in 1..Len(s) |-> complement[s[Len(s) + 1 - i]]]

(* --------------------------- pattern generator ------------------------ *)
\* "c" + reg for every reg of a list, in order.
Prefixed(c, regs) == [j \in 1..Len(regs) |-> <<c>> \o regs[j]]

\* Mutant: the start-truncated patterns are given the end anchor.
start_truncated_dollar(regs) == Prefixed("$", regs)

\* yield "^" + reg: the first bases missing at the very start of the read.
start_truncated(regs) == Prefixed("^", regs)

\* yield "$" + reg: the last bases missing at the very end of the read.
end_truncated(regs) == Prefixed("$", regs)

\* Mutant: the base at i is kept, no wildcard is put in its place.
one_wildcard_kept(seq, i) == seq

\* seq[:i] + "N" + seq[i+1:]
one_wildcard(seq, i) == slice_to(seq, i) \o <<"N">> \o slice_from(seq, i + 1)

\* seq[:i] + "N" + seq[i+1:i+1+k] + "N" + seq[i+k+2:]
two_wildcards(seq, i, k) ==
  slice_to(seq, i) \o <<"N">> \o slice(seq, i + 1, i + 1 + k) \o <<"N">>
    \o slice_from(seq, i + k + 2)

\* The patterns of make_reg_ex_mm in the order the generator yields them.
RECURSIVE make_reg_ex_mm(_, _)
make_reg_ex_mm(seq0, m) ==
  LET seq == upper(seq0)
      n == Len(seq)
      truncated(i) ==
        start_truncated(make_reg_ex_mm(slice_from(seq, i), m - i))
          \o end_truncated(make_reg_ex_mm(slice_drop_last(seq, i), m - i))
      singles == [i \in 1..n |-> make_reg_ex(one_wildcard(seq, i - 1))]
      pairs_from(i) ==
        [k \in 1..(n - i - 1) |-> make_reg_ex(two_wildcards(seq, i, k - 1))]
  IN <<make_reg_ex(seq)>>
       \o Flatten([i \in 1..m |-> truncated(i)])
       \o (IF m >= 1 THEN singles ELSE <<>>)
       \o (IF m >= 2 THEN Flatten([i \in 1..n |-> pairs_from(i - 1)])
                     ELSE <<>>)

(* ------------------------------ matcher ------------------------------- *)
\* Index of the "]" closing the class opened at re[i].
RECURSIVE class_end(_, _)
class_end(re, i) == IF re[i] = "]" THEN i ELSE class_end(re, i + 1)

\* Match re[i..] against s at offset k (0-based); the end offset, or -1.
RECURSIVE match_here(_, _, _, _)
match_here(re, i, s, k) ==
  IF i > Len(re) THEN k
  ELSE IF re[i] = "^" THEN (IF k = 0 THEN match_here(re, i + 1, s, k) ELSE -1)
  ELSE IF re[i] = "$"
    THEN (IF k = Len(s) THEN match_here(re, i + 1, s, k) ELSE -1)
  ELSE IF k >= Len(s) THEN -1
  ELSE IF re[i] = "." THEN match_here(re, i + 1, s, k + 1)
  ELSE IF re[i] = "["
    THEN LET j == class_end(re, i)
         IN IF s[k + 1] \in {re[x] : x \in (i + 1)..(j - 1)}
            THEN match_here(re, j + 1, s, k + 1) ELSE -1
  ELSE IF s[k + 1] = re[i] THEN match_here(re, i + 1, s, k + 1)
  ELSE -1

\* "|".join(patterns)
join(ps) ==
  Flatten([i \in 1..Len(ps) |-> IF i = 1 THEN ps[i] ELSE <<"|">> \o ps[i]])

\* The alternatives of a compiled regular expression, in order.
alternatives(re) ==
  LET bars == SelectSeq(Indices(Len(re)), LAMBDA i : re[i] = "|")
      ends == <<0>> \o bars \o <<Len(re) + 1>>
  IN [a \in 1..(Len(ends) - 1) |-> SubSeq(re, ends[a] + 1, ends[a + 1] - 1)]

NoMatch == [found |-> FALSE, start |-> 0, end |-> 0]

\* The end offset of the first alternative, from the a-th on, that matches
\* at offset k; -1 if none does.
RECURSIVE first_end(_, _, _, _)
first_end(alts, a, s, k) ==
  IF a > Len(alts) THEN -1
  ELSE IF match_here(alts[a], 1, s, k) >= 0 THEN match_here(alts[a], 1, s, k)
  ELSE first_end(alts, a + 1, s, k)

\* The scan of re.search from offset k on: the first offset where an
\* alternative matches, there the first alternative that does.
RECURSIVE scan(_, _, _)
scan(alts, s, k) ==
  IF k > Len(s) THEN NoMatch
  ELSE IF first_end(alts, 1, s, k) >= 0
    THEN [found |-> TRUE, start |-> k, end |-> first_end(alts, 1, s, k)]
  ELSE scan(alts, s, k + 1)

\* Mutant: the rightmost offset where an alternative matches.
search_rightmost(re, s) ==
  LET alts == alternatives(re)
      ks == {k \in 0..Len(s) : first_end(alts, 1, s, k) >= 0}
  IN IF ks = {} THEN NoMatch
     ELSE LET k == CHOOSE x \in ks : \A y \in ks : y <= x
          IN [found |-> TRUE, start |-> k, end |-> first_end(alts, 1, s, k)]

\* re.search: the leftmost offset where an alternative matches, there the
\* first alternative that does.
search(re, s) == scan(alternatives(re), s, 0)

(* --------------------------- load_primers_as_re ----------------------- *)
\* The patterns of all records, in generation order.
generated(file, m, revcomp) ==
  Flatten([r \in 1..Len(file) |->
             make_reg_ex_mm(IF revcomp THEN reverse_complement(file[r])
                            ELSE file[r], m)])

\* First occurrences only (the set the patterns are added to).
dedup(ps) ==
  LET firsts == SelectSeq(Indices(Len(ps)),
                          LAMBDA i : \A j \in 1..(i - 1) : ps[j] # ps[i])
  IN [x \in 1..Len(firsts) |-> ps[firsts[x]]]

\* The iteration order of a set of strings is not specified by the language
\* and varies with the interpreter's hash seed.  The orders modelled are the
\* rotations of the insertion order, one per seed.
set_order(ps, seed) ==
  IF ps = <<>> THEN <<>>
  ELSE LET r == seed % Len(ps)
       IN SubSeq(ps, r + 1, Len(ps)) \o SubSeq(ps, 1, r)

max_len(ps) == IF ps = <<>> THEN 0
               ELSE CHOOSE n \in {Len(ps[i]) : i \in 1..Len(ps)} :
                      \A i \in 1..Len(ps) : Len(ps[i]) <= n

\* sorted(ps, key=lambda p: -len(p)): stable, longest first.
RECURSIVE sorted_from(_, _)
sorted_from(ps, n) ==
  IF n < 0 THEN <<>>
  ELSE SelectSeq(ps, LAMBDA p : Len(p) = n) \o sorted_from(ps, n - 1)

sorted_longest_first(ps) == sorted_from(ps, max_len(ps))

\* The compiled regular expression load_primers_as_re returns.
load_primers_as_re(file, m, revcomp, seed) ==
  join(sorted_longest_first(set_order(dedup(generated(file, m, revcomp)), seed)))

(* ------------------------------ inputs -------------------------------- *)
\* Primer files: lists of non-empty primers with at most b bases in all.
RECURSIVE PrimerFilesOver(_, _)
PrimerFilesOver(letters, b) ==
  {<<>>} \cup
  UNION {{<<p>> \o rest : rest \in PrimerFilesOver(letters, b - Len(p))} :
           p \in SeqsOf(letters, 1, b)}

StreamPrimerFiles == PrimerFilesOver(StreamPrimerLetters, MaxSeqLen)
\* Primers shorter than the longest read, so that a clip can leave bases on
\* either side of the match.
RecordPrimerFiles == PrimerFilesOver(StreamPrimerLetters, MaxTargetLen - 1)
MatchPrimerFiles == PrimerFilesOver(PrimerLetters, MaxPrimerBases)

Qualities(s) == [i \in 1..Len(s) |-> i]

FastaRecords(reads) ==
  {[sequence |-> s, quality |-> <<>>, clip_qual_left |-> 0,
    clip_qual_right |-> 0] : s \in reads}
FastqRecords(reads) ==
  {[sequence |-> s, quality |-> Qualities(s), clip_qual_left |-> 0,
    clip_qual_right |-> 0] : s \in reads}
\* An SFF record carries a clip window 0 <= left <= right <= len.
SffRecords(reads) ==
  UNION {{[sequence |-> s, quality |-> Qualities(s),
           clip_qual_left |-> w[1], clip_qual_right |-> w[2]] :
            w \in {v \in (0..Len(s)) \X (0..Len(s)) : v[1] <= v[2]}} :
         s \in reads}

Reads == SeqsOf(ReadLetters, 0, MaxSeqLen)
Flowgrams == SeqsOf(Bases, 0, MaxSeqLen)
Targets == SeqsOf(Bases, 0, MaxTargetLen)
LongReads == SeqsOf(ReadLetters, 0, MaxTargetLen)

NoRecord == [sequence |-> <<>>, quality |-> <<>>, clip_qual_left |-> 0,
             clip_qual_right |-> 0]
NoLast == [record |-> NoRecord, seq |-> <<>>, result |-> NoMatch,
           outcome |-> "none", written |-> FALSE, out |-> NoRecord]

(* ------------------------------- Init --------------------------------- *)
\* The state once the command line is parsed (lines 55-120).
InitWith(files, formats, min_lens, keeps) ==
  /\ pc = "load"
  /\ mm \in {0, 1, 2}
  /\ min_len \in min_lens
  /\ keep_negatives \in keeps
  /\ \E primer_type \in {"forward", "reverse", "reverse-complement"} :
       /\ forward = (primer_type = "forward")
       /\ rc = (primer_type = "reverse-complement")
  /\ seq_format \in formats
  /\ primer_fasta \in files
  /\ count = 0
  /\ primer = <<>>
  /\ short_neg = 0 /\ short_clipped = 0 /\ clipped = 0 /\ negs = 0
  /\ nread = 0 /\ nwritten = 0
  /\ last = NoLast

Init == InitWith(StreamPrimerFiles, {"sff", "fastq", "fasta"},
                 0..MaxMinLen, BOOLEAN)

InitRecord == InitWith(RecordPrimerFiles, {"sff", "fastq", "fasta"},
                       0..MaxMinLen, BOOLEAN)

InitMatch == InitWith(MatchPrimerFiles, {"fasta"}, {0}, {TRUE})

(* ------------------------------ actions ------------------------------- *)
LoadPrimers ==
  /\ pc = "load"
  /\ \E seed \in 0..MaxHashSeed :
       primer' = load_primers_as_re(primer_fasta, mm, rc, seed)
  /\ count' = Len(primer_fasta)
  /\ short_neg' = 0 /\ short_clipped' = 0 /\ clipped' = 0 /\ negs' = 0
  /\ pc' = "run"
  /\ UNCHANGED <<args, nread, nwritten, last>>

\* One iteration of a record loop: the counters, the writer and the record
\* of what the iteration did.
Iteration(record, seq, result, outcome, out) ==
  /\ clipped' = clipped + (IF outcome = "clipped" THEN 1 ELSE 0)
  /\ short_clipped' = short_clipped + (IF outcome = "short_clipped" THEN 1 ELSE 0)
  /\ negs' = negs + (IF outcome = "negs" THEN 1 ELSE 0)
  /\ short_neg' = short_neg + (IF outcome = "short_neg" THEN 1 ELSE 0)
  /\ nwritten' = nwritten + (IF outcome \in {"clipped", "negs"} THEN 1 ELSE 0)
  /\ nread' = nread + 1
  /\ last' = [record |-> record, seq |-> seq, result |-> result,
              outcome |-> outcome,
              written |-> outcome \in {"clipped", "negs"}, out |-> out]
  /\ UNCHANGED <<pc, args, count, primer>>

\* Mutant: a read of exactly min_len bases is taken for short.
Unmatched_strict(record, seq, length) ==
  IF keep_negatives
  THEN IF length > min_len
       THEN Iteration(record, seq, NoMatch, "negs", record)
       ELSE Iteration(record, seq, NoMatch, "short_neg", NoRecord)
  ELSE Iteration(record, seq, NoMatch, "dropped", NoRecord)

\* Mutant: with keep_negatives off the unmatched reads are counted as short.
Unmatched_counted(record, seq, length) ==
  IF keep_negatives /\ length >= min_len
  THEN Iteration(record, seq, NoMatch, "negs", record)
  ELSE Iteration(record, seq, NoMatch, "short_neg", NoRecord)

\* The branch every loop takes when the search finds nothing.
Unmatched(record, seq, length) ==
  IF keep_negatives
  THEN IF length >= min_len
       THEN Iteration(record, seq, NoMatch, "negs", record)
       ELSE Iteration(record, seq, NoMatch, "short_neg", NoRecord)
  ELSE Iteration(record, seq, NoMatch, "dropped", NoRecord)

SffForwardOn(records) ==
  \E record \in records :
    LET left_clip == record.clip_qual_left
        right_clip == record.clip_qual_right
        seq == upper(slice(record.sequence, left_clip, right_clip))
    IN \E result \in {search(primer, seq)} :
       IF result.found
       THEN IF Len(seq) - result.end >= min_len
            THEN Iteration(record, seq, result, "clipped",
                   [record EXCEPT !.clip_qual_left = left_clip + result.end])
            ELSE Iteration(record, seq, result, "short_clipped", NoRecord)
       ELSE Unmatched(record, seq, Len(seq))

\* Mutant: the new right bound is not offset by the left bound.
SffReverseOn_unshifted(records) ==
  \E record \in records :
    LET left_clip == record.clip_qual_left
        right_clip == record.clip_qual_right
        seq == upper(slice(record.sequence, left_clip, right_clip))
    IN \E result \in {search(primer, seq)} :
       LET new_len == result.start
       IN
       IF result.found
       THEN IF new_len >= min_len
            THEN Iteration(record, seq, result, "clipped",
                   [record EXCEPT !.clip_qual_right = new_len])
            ELSE Iteration(record, seq, result, "short_clipped", NoRecord)
       ELSE Unmatched(record, seq, Len(seq))

SffReverseOn(records) ==
  \E record \in records :
    LET left_clip == record.clip_qual_left
        right_clip == record.clip_qual_right
        seq == upper(slice(record.sequence, left_clip, right_clip))
    IN \E result \in {search(primer, seq)} :
       LET new_len == result.start
       IN
       IF result.found
       THEN IF new_len >= min_len
            THEN Iteration(record, seq, result, "clipped",
                   [record EXCEPT !.clip_qual_right = left_clip + new_len])
            ELSE Iteration(record, seq, result, "short_clipped", NoRecord)
       ELSE Unmatched(record, seq, Len(seq))

FastqForwardOn(records) ==
  \E record \in records :
    LET seq == upper(record.sequence)
    IN \E result \in {search(primer, seq)} :
       LET cut == result.end
           sequence == slice_from(seq, cut)
       IN
       IF result.found
       THEN IF Len(sequence) >= min_len
            THEN Iteration(record, seq, result, "clipped",
                   [record EXCEPT !.sequence = sequence,
                                  !.quality = slice_from(record.quality, cut)])
            ELSE Iteration(record, seq, result, "short_clipped", NoRecord)
       ELSE Unmatched(record, seq, Len(record.sequence))

FastqReverseOn(records) ==
  \E record \in records :
    LET seq == upper(record.sequence)
    IN \E result \in {search(primer, seq)} :
       LET cut == result.start
           sequence == slice_to(seq, cut)
       IN
       IF result.found
       THEN IF Len(sequence) >= min_len
            THEN Iteration(record, seq, result, "clipped",
                   [record EXCEPT !.sequence = sequence,
                                  !.quality = slice_to(record.quality, cut)])
            ELSE Iteration(record, seq, result, "short_clipped", NoRecord)
       ELSE Unmatched(record, seq, Len(record.sequence))

\* Mutant: a kept region of exactly min_len bases is taken for short.
FastaForwardOn_strict(records) ==
  \E record \in records :
    LET seq == upper(record.sequence)
    IN \E result \in {search(primer, seq)} :
       LET cut == result.end
           sequence == slice_from(seq, cut)
       IN
       IF result.found
       THEN IF Len(sequence) > min_len
            THEN Iteration(record, seq, result, "clipped",
                   [record EXCEPT !.sequence = sequence])
            ELSE Iteration(record, seq, result, "short_clipped", NoRecord)
       ELSE Unmatched(record, seq, Len(record.sequence))

FastaForwardOn(records) ==
  \E record \in records :
    LET seq == upper(record.sequence)
    IN \E result \in {search(primer, seq)} :
       LET cut == result.end
           sequence == slice_from(seq, cut)
       IN
       IF result.found
       THEN IF Len(sequence) >= min_len
            THEN Iteration(record, seq, result, "clipped",
                   [record EXCEPT !.sequence = sequence])
            ELSE Iteration(record, seq, result, "short_clipped", NoRecord)
       ELSE Unmatched(record, seq, Len(record.sequence))

FastaReverseOn(records) ==
  \E record \in records :
    LET seq == upper(record.sequence)
    IN \E result \in {search(primer, seq)} :
       LET cut == result.start
           sequence == slice_to(seq, cut)
       IN
       IF result.found
       THEN IF Len(sequence) >= min_len
            THEN Iteration(record, seq, result, "clipped",
                   [record EXCEPT !.sequence = sequence])
            ELSE Iteration(record, seq, result, "short_clipped", NoRecord)
       ELSE Unmatched(record, seq, Len(record.sequence))

\* The loops of the whole program, on input files of up to MaxRecords reads.
Running(format, fwd) ==
  pc = "run" /\ seq_format = format /\ forward = fwd /\ nread < MaxRecords

SffForward == Running("sff", TRUE) /\ SffForwardOn(SffRecords(Flowgrams))
SffReverse == Running("sff", FALSE) /\ SffReverseOn(SffRecords(Flowgrams))
FastqForward == Running("fastq", TRUE) /\ FastqForwardOn(FastqRecords(Reads))
FastqReverse == Running("fastq", FALSE) /\ FastqReverseOn(FastqRecords(Reads))
FastaForward == Running("fasta", TRUE) /\ FastaForwardOn(FastaRecords(Reads))
FastaReverse == Running("fasta", FALSE) /\ FastaReverseOn(FastaRecords(Reads))

\* The reader is exhausted: the handles are closed and the counts printed.
Finish ==
  /\ pc = "run"
  /\ pc' = "done"
  /\ UNCHANGED <<args, count, primer, stats, nread, nwritten, last>>

Next ==
  \/ LoadPrimers
  \/ SffForward
  \/ SffReverse
  \/ FastqForward
  \/ FastqReverse
  \/ FastaForward
  \/ FastaReverse
  \/ Finish

Spec == Init /\ [][Next]_vars

\* The loops of the whole program on an input file of one longer read.
First(format, fwd) ==
  pc = "run" /\ seq_format = format /\ forward = fwd /\ nread = 0

RecordSffForward == First("sff", TRUE) /\ SffForwardOn(SffRecords(Targets))
RecordSffReverse == First("sff", FALSE) /\ SffReverseOn(SffRecords(Targets))
RecordFastqForward ==
  First("fastq", TRUE) /\ FastqForwardOn(FastqRecords(LongReads))
RecordFastqReverse ==
  First("fastq", FALSE) /\ FastqReverseOn(FastqRecords(LongReads))
RecordFastaForward ==
  First("fasta", TRUE) /\ FastaForwardOn(FastaRecords(LongReads))
RecordFastaReverse ==
  First("fasta", FALSE) /\ FastaReverseOn(FastaRecords(LongReads))

RecordFinish == nread > 0 /\ Finish

NextRecord ==
  \/ LoadPrimers
  \/ RecordSffForward
  \/ RecordSffReverse
  \/ RecordFastqForward
  \/ RecordFastqReverse
  \/ RecordFastaForward
  \/ RecordFastaReverse
  \/ RecordFinish

SpecRecord == InitRecord /\ [][NextRecord]_vars

\* The FASTA loops on a file of one read, over the richer primer files.
MatchForward ==
  /\ pc = "run" /\ forward /\ nread = 0
  /\ FastaForwardOn(FastaRecords(Targets))

MatchReverse ==
  /\ pc = "run" /\ ~forward /\ nread = 0
  /\ FastaReverseOn(FastaRecords(Targets))

NextMatch ==
  \/ LoadPrimers
  \/ MatchForward
  \/ MatchReverse
  \/ RecordFinish

SpecMatch == InitMatch /\ [][NextMatch]_vars

(* ------------------------------ properties ---------------------------- *)
\* The part of a record the primers are searched in: the clip window of an
\* SFF record, the whole sequence otherwise.
window(rec) ==
  IF seq_format = "sff"
  THEN slice(rec.sequence, rec.clip_qual_left, rec.clip_qual_right)
  ELSE rec.sequence

\* The primer as the patterns are generated from it.
effective(p) == upper(IF rc THEN reverse_complement(p) ELSE p)

unambiguous(p) == \A i \in 1..Len(p) : p[i] \in Bases
diffs(a, b) == Cardinality({i \in 1..Len(a) : a[i] # b[i]})
begins_with(s, t) == Len(t) <= Len(s) /\ SubSeq(s, 1, Len(t)) = t
ends_with(s, t) ==
  Len(t) <= Len(s) /\ SubSeq(s, Len(s) - Len(t) + 1, Len(s)) = t

Counted == clipped + short_clipped + negs + short_neg

\* C1: a record whose effective sequence (length len) matches at [s, e)
\* keeps [e, len) in forward orientation and [0, s) in reverse and
\* reverse-complement orientation; it is written and counted as clipped
\* exactly when the kept length is at least min_len, and otherwise is not
\* written and is counted as short_clipped.
C1_ClipDecision ==
  [][nread' = nread + 1 =>
       \A result \in {search(primer, upper(window(last'.record)))} :
         result.found =>
           LET seq == upper(window(last'.record))
               s == result.start
               e == result.end
               new_len == IF forward THEN Len(seq) - e ELSE s
               kept == IF forward THEN SubSeq(seq, e + 1, Len(seq))
                       ELSE SubSeq(seq, 1, s)
           IN /\ last'.result = result
              /\ 0 <= s /\ s <= e /\ e <= Len(seq)
              /\ negs' = negs /\ short_neg' = short_neg
              /\ IF new_len >= min_len
                 THEN /\ last'.written
                      /\ upper(window(last'.out)) = kept
                      /\ Len(window(last'.out)) = new_len
                      /\ clipped' = clipped + 1
                      /\ short_clipped' = short_clipped
                      /\ nwritten' = nwritten + 1
                 ELSE /\ ~last'.written
                      /\ short_clipped' = short_clipped + 1
                      /\ clipped' = clipped
                      /\ nwritten' = nwritten]_vars

\* C1 witness: a forward clip that removes a non-empty match and keeps a
\* non-empty rest against min_len = 1.
C1_Witness ==
  /\ nread > 0 /\ forward /\ min_len = 1
  /\ last.outcome = "clipped"
  /\ last.result.end > last.result.start
  /\ Len(window(last.out)) = 1

\* C5: a record without a primer match is never written when keep_negatives
\* is off; when it is on the record is written unchanged and counted in negs
\* exactly when its effective length is at least min_len, and otherwise is not
\* written and is counted in short_neg.
C5_KeepUnmatched ==
  [][(nread' = nread + 1 /\ ~search(primer, upper(window(last'.record))).found)
       => /\ clipped' = clipped /\ short_clipped' = short_clipped
          /\ IF ~keep_negatives
             THEN /\ ~last'.written /\ nwritten' = nwritten
                  /\ negs' = negs /\ short_neg' = short_neg
             ELSE IF Len(window(last'.record)) >= min_len
                  THEN /\ last'.written /\ last'.out = last'.record
                       /\ nwritten' = nwritten + 1
                       /\ negs' = negs + 1 /\ short_neg' = short_neg
                  ELSE /\ ~last'.written /\ nwritten' = nwritten
                       /\ negs' = negs /\ short_neg' = short_neg + 1]_vars

\* C5 witness: an unmatched mixed-case read kept as it is.
C5_Witness ==
  /\ nread > 0 /\ keep_negatives /\ min_len = 1
  /\ last.outcome = "negs"
  /\ last.out = last.record
  /\ last.record.sequence # upper(last.record.sequence)

\* C6 as stated: every processed record increments exactly one of the four
\* counters, so they sum to the number of records read, and the number of
\* records written is clipped + negs.
C6_EveryRecordCounted ==
  /\ Counted = nread
  /\ nwritten = clipped + negs

\* C6 amended: the records written are clipped + negs; the four counters sum
\* to the number of records read when keep_negatives is on; when it is off
\* the unmatched records are counted nowhere, negs and short_neg stay 0 and
\* the sum does not exceed the number of records read.
C6_CountedUnlessDropped ==
  /\ nwritten = clipped + negs
  /\ keep_negatives => Counted = nread
  /\ ~keep_negatives => negs = 0 /\ short_neg = 0 /\ Counted <= nread
  /\ (~keep_negatives /\ nread > 0 /\ last.outcome = "dropped")
       => Counted < nread

\* C6 witness: two records read, one clipped and one kept unmatched.
C6_Witness ==
  /\ nread >= 2 /\ keep_negatives
  /\ clipped >= 1 /\ negs >= 1
  /\ Counted = nread

\* C8: a written SFF record differs from the one read in one clip bound at
\* most: a forward clip moves clip_qual_left to left + e, a reverse clip
\* moves clip_qual_right to left + s, an unmatched record is unchanged; the
\* new window lies inside the old one.
C8_SffFrame ==
  (seq_format = "sff" /\ nread > 0 /\ last.written) =>
    LET rec == last.record
        out == last.out
        left == rec.clip_qual_left
        right == rec.clip_qual_right
    IN \A result \in {search(primer, upper(window(rec)))} :
       /\ out.sequence = rec.sequence /\ out.quality = rec.quality
       /\ IF ~result.found
          THEN out = rec
          ELSE IF forward
               THEN out = [rec EXCEPT !.clip_qual_left = left + result.end]
               ELSE out = [rec EXCEPT !.clip_qual_right = left + result.start]
       /\ left <= out.clip_qual_left
       /\ out.clip_qual_left <= out.clip_qual_right
       /\ out.clip_qual_right <= right

\* C8 witness: a reverse clip of a record whose window does not start at 0.
C8_Witness ==
  /\ seq_format = "sff" /\ ~forward /\ nread > 0
  /\ last.outcome = "clipped"
  /\ last.record.clip_qual_left > 0
  /\ last.result.start > 0
  /\ last.result.end > last.result.start
  /\ last.out.clip_qual_right < last.record.clip_qual_right

\* C10 as stated: a match is reported only for a non-empty span, and with a
\* primer file of zero entries no record is matched or counted as clipped or
\* short_clipped.
C10_NoSpuriousMatch ==
  nread > 0 =>
    /\ last.result.found => last.result.end > last.result.start
    /\ primer_fasta = <<>> =>
         ~last.result.found /\ clipped = 0 /\ short_clipped = 0

\* C2 as stated: the span returned starts at the leftmost offset where a
\* pattern matches, is the longest span a pattern matches there, and is the
\* same for every iteration order of the set of patterns.
C2_LongestSegmentWins ==
  (nread > 0 /\ last.result.found) =>
    LET alts == alternatives(primer)
        seq == last.seq
        s == last.result.start
    IN /\ \A a \in 1..Len(alts) : \A k \in 0..(s - 1) :
            match_here(alts[a], 1, seq, k) < 0
       /\ \A a \in 1..Len(alts) :
            match_here(alts[a], 1, seq, s) <= last.result.end
       /\ \A seed \in 0..MaxHashSeed :
            last.result =
              search(load_primers_as_re(primer_fasta, mm, rc, seed), seq)

\* The one primer, the budget of one mismatch and the target of the primer's
\* length that the substitution claims are about.
OneSubstitutionCase ==
  /\ nread > 0 /\ mm = 1 /\ Len(primer_fasta) = 1
  /\ unambiguous(effective(primer_fasta[1]))
  /\ Len(last.seq) = Len(primer_fasta[1])

C4_StartTruncation ==
  (nread > 0 /\ mm >= 1) =>
    /\ \A r \in 1..Len(primer_fasta) : \A i \in 1..mm :
         begins_with(last.seq, slice_from(effective(primer_fasta[r]), i))
           => last.result.found /\ last.result.start = 0
    /\ LET alts == alternatives(primer)
       IN \A a \in 1..Len(alts) :
            (alts[a] # <<>> /\ alts[a][1] = "^")
              => \A k \in 1..Len(last.seq) :
                   match_here(alts[a], 1, last.seq, k) < 0

\* C4 witness: budget 2, a three-base primer of which only the last base
\* starts the read, matched at [0, 1).
C4_Witness ==
  /\ nread > 0 /\ mm = 2 /\ Len(primer_fasta) = 1
  /\ Len(primer_fasta[1]) = 3
  /\ begins_with(last.seq, slice_from(effective(primer_fasta[1]), 2))
  /\ ~begins_with(last.seq, slice_from(effective(primer_fasta[1]), 1))
  /\ last.result = [found |-> TRUE, start |-> 0, end |-> 1]

\* C9 as stated: with a budget of 1 or 2 mismatches, a read that ends with a
\* primer less its last i bases (1 <= i <= budget, some bases left) is
\* matched there: a pattern matches a non-empty span that ends at the read's
\* last position.
C9_EndTruncation ==
  (nread > 0 /\ mm >= 1) =>
    \A r \in 1..Len(primer_fasta) : \A i \in 1..mm :
      LET p == effective(primer_fasta[r])
          segment == slice_drop_last(p, i)
          alts == alternatives(primer)
      IN (Len(p) > i /\ ends_with(last.seq, segment))
           => \E a \in 1..Len(alts) : \E k \in 0..(Len(last.seq) - 1) :
                match_here(alts[a], 1, last.seq, k) = Len(last.seq)

\* C7 as stated: the region kept by a clip holds no further match (stated
\* for primer files whose patterns are all non-empty: at least one primer,
\* each longer than the mismatch budget).
C7_Idempotent ==
  (/\ nread > 0 /\ last.outcome = "clipped"
   /\ primer_fasta # <<>>
   /\ \A r \in 1..Len(primer_fasta) : Len(primer_fasta[r]) > mm) =>
    ~search(primer, upper(last.out.sequence)).found

\* C7 amended: in reverse and reverse-complement orientation the region kept
\* by a clip holds no further non-empty match; a second match is the empty
\* match in an empty kept region.
C7_ReverseIdempotent ==
  (nread > 0 /\ last.outcome = "clipped" /\ ~forward) =>
    LET again == search(primer, upper(last.out.sequence))
    IN again.found =>
         /\ again.end = again.start
         /\ last.out.sequence = <<>>

\* C7 witness: a reverse clip that keeps a non-empty region before a
\* non-empty match, in which nothing matches again.
C7_Witness ==
  /\ nread > 0 /\ ~forward /\ last.outcome = "clipped"
  /\ last.result.start > 0
  /\ last.result.end > last.result.start
  /\ ~search(primer, upper(last.out.sequence)).found

=============================================================================
